---- MODULE Spec2Model ----
(***************************************************************************)
(* Model of tools/translate_script.py: the dictionary word substituter     *)
(* (translate_text), the header locator (detect_spanish_header), the line  *)
(* rewriter and file rewriter (process_file) and the batch driver (main).  *)
(*                                                                         *)
(* A Python str is a sequence of characters; a character is a one-letter   *)
(* TLA+ string.  The non-ASCII characters the script names are written     *)
(* "iexcl" (U+00A1), "iquest" (U+00BF), "iacute"/"Iacute", "atilde"/       *)
(* "Atilde" and "oacute"/"Oacute".                                         *)
(***************************************************************************)
EXTENDS Integers, Sequences, FiniteSets, TLC

VARIABLES
    disk,      \* file name -> content (characters) of every *.csv file
    stat_size, \* file name -> st_size reported by file.stat()
    logfile,   \* translated_files_log.txt: [exists, lines]
    todo,      \* main: the files of sorted(CSV_DIR.glob('*.csv')) not yet iterated
    lines,     \* process_file: the lines read from the current file
    results,   \* main: the list of (name, method, status)
    stdout,    \* main: what print() wrote
    pc,        \* main: position of the run
    disk0,     \* history: the directory as it was when main started
    log0,      \* history: the log file as it was when main started
    opened,    \* history: the files opened for writing, in order
    handled,   \* history: the files whose size was read, in order
    crashAt,   \* history: what was being handled when an exception escaped
    text,      \* translate_text: the argument
    pass1,     \* translate_text(text)
    pass2,     \* translate_text(pass1.text)
    tpc        \* position of the translate_text driver

mainVars == <<disk, stat_size, logfile, todo, lines, results, stdout, pc,
              disk0, log0, opened, handled, crashAt>>
textVars == <<text, pass1, pass2, tpc>>
vars == <<disk, stat_size, logfile, todo, lines, results, stdout, pc,
          disk0, log0, opened, handled, crashAt, text, pass1, pass2, tpc>>

\* Python's None where an index or a count is expected
None == -1
\* no exception escaped (crashAt); the log file does not exist (logfile)
NoCrash == <<>>
NoFile == [exists |-> FALSE, lines |-> <<>>]
NoResult == [text |-> <<>>, status |-> "-"]

-----------------------------------------------------------------------------
(* Characters: str.lower, str.upper, str.isupper, str.strip and \w, \d.     *)

LowerLetters ==
    <<"a", "b", "c", "d", "e", "f", "g", "h", "i", "j", "k", "l", "m", "n", "o",
      "p", "q", "r", "s", "t", "u", "v", "w", "x", "y", "z",
      "iacute", "atilde", "oacute">>
UpperLetters ==
    <<"A", "B", "C", "D", "E", "F", "G", "H", "I", "J", "K", "L", "M", "N", "O",
      "P", "Q", "R", "S", "T", "U", "V", "W", "X", "Y", "Z",
      "Iacute", "Atilde", "Oacute">>
Digits == {"0", "1", "2", "3", "4", "5", "6", "7", "8", "9"}
Whitespace == {" ", "\t", "\n", "\r", "\f"}

Range(s) == {s[i] : i \in DOMAIN s}
LowerSet == Range(LowerLetters)
UpperSet == Range(UpperLetters)

IndexIn(s, c) == CHOOSE i \in DOMAIN s : s[i] = c

char_isupper(c) == c \in UpperSet
char_lower(c) == IF c \in UpperSet THEN LowerLetters[IndexIn(UpperLetters, c)] ELSE c
char_upper(c) == IF c \in LowerSet THEN UpperLetters[IndexIn(LowerLetters, c)] ELSE c

str_lower(s) == [i \in DOMAIN s |-> char_lower(s[i])]
str_upper(s) == [i \in DOMAIN s |-> char_upper(s[i])]

\* [\w...] of the pattern in translate_text: letters (accented ones too), digits, "_"
IsWordChar(c) == c \in LowerSet \cup UpperSet \cup Digits \cup {"_"}

RECURSIVE str_lstrip(_)
str_lstrip(s) ==
    IF s # <<>> /\ Head(s) \in Whitespace THEN str_lstrip(Tail(s)) ELSE s

RECURSIVE str_rstrip(_)
str_rstrip(s) ==
    IF s # <<>> /\ s[Len(s)] \in Whitespace
    THEN str_rstrip(SubSeq(s, 1, Len(s) - 1)) ELSE s

str_strip(s) == str_rstrip(str_lstrip(s))

\* sub in s  (substring test)
Contains(s, sub) ==
    \E i \in 1..(Len(s) - Len(sub) + 1) : SubSeq(s, i, i + Len(sub) - 1) = sub

-----------------------------------------------------------------------------
(* DICT: the literal's key/value pairs in source order, and the dict Python *)
(* builds from it (a repeated key keeps its first position and takes the    *)
(* last value).                                                             *)

DICT_LITERAL ==
    <<
       <<<<"A", "c", "e", "p", "t", "a", "r">>, <<"A", "c", "e", "i", "t", "a", "r">>>>,
       <<<<"A", "c", "e", "p", "t", "a", "r", ".">>, <<"A", "c", "e", "i", "t", "a", "r", ".">>>>,
       <<<<"A", "c", "e", "p", "t", "a", "r", "!">>, <<"A", "c", "e", "i", "t", "a", "r", "!">>>>,
       <<<<"A", "c", "e", "p", "t", "a", "r", "?">>, <<"A", "c", "e", "i", "t", "a", "r", "?">>>>,
       <<<<"A", "c", "e", "p", "t", "a", "r", ";">>, <<"A", "c", "e", "i", "t", "a", "r", ";">>>>,
       <<<<"A", "c", "e", "p", "t", "a", "r", ",">>, <<"A", "c", "e", "i", "t", "a", "r", ",">>>>,
       <<<<"C", "a", "n", "c", "e", "l", "a", "r">>, <<"C", "a", "n", "c", "e", "l", "a", "r">>>>,
       <<<<"S", "iacute">>, <<"S", "i", "m">>>>,
       <<<<"S", "i">>, <<"S", "e">>>>,
       <<<<"N", "o">>, <<"N", "atilde", "o">>>>,
       <<<<"B", "i", "e", "n", "v", "e", "n", "i", "d", "o">>, <<"B", "e", "m", "-", "v", "i", "n", "d", "o">>>>,
       <<<<"B", "i", "e", "n", "v", "e", "n", "i", "d", "a">>, <<"B", "e", "m", "-", "v", "i", "n", "d", "a">>>>,
       <<<<"B", "i", "e", "n", "v", "e", "n", "i", "d", "o", "s">>, <<"B", "e", "m", "-", "v", "i", "n", "d", "o", "s">>>>,
       <<<<"C", "e", "r", "r", "a", "r">>, <<"F", "e", "c", "h", "a", "r">>>>,
       <<<<"A", "b", "r", "i", "r">>, <<"A", "b", "r", "i", "r">>>>,
       <<<<"A", "c", "e", "p", "t", "a", "r">>, <<"A", "c", "e", "i", "t", "a", "r">>>>,
       <<<<"A", "c", "e", "p", "t", "a", "r">>, <<"A", "c", "e", "i", "t", "a", "r">>>>,
       <<<<"A", "c", "e", "p", "t", "a", "r">>, <<"A", "c", "e", "i", "t", "a", "r">>>>,
       <<<<"R", "e", "i", "n", "o">>, <<"R", "e", "i", "n", "o">>>>,
       <<<<"R", "e", "y", "e", "s">>, <<"R", "e", "i", "s">>>>,
       <<<<"R", "e", "y">>, <<"R", "e", "i">>>>,
       <<<<"R", "e", "i", "n", "a">>, <<"R", "a", "i", "n", "h", "a">>>>,
       <<<<"H", "i", "j", "o", "s">>, <<"F", "i", "l", "h", "o", "s">>>>,
       <<<<"H", "i", "j", "a", "s">>, <<"F", "i", "l", "h", "a", "s">>>>,
       <<<<"H", "i", "j", "o">>, <<"F", "i", "l", "h", "o">>>>,
       <<<<"H", "i", "j", "a">>, <<"F", "i", "l", "h", "a">>>>,
       <<<<"G", "u", "a", "r", "d", "a", "r">>, <<"S", "a", "l", "v", "a", "r">>>>,
       <<<<"C", "a", "r", "g", "a", "r">>, <<"C", "a", "r", "r", "e", "g", "a", "r">>>>,
       <<<<"S", "i", "g", "u", "i", "e", "n", "t", "e">>, <<"P", "r", "oacute", "x", "i", "m", "o">>>>,
       <<<<"A", "n", "t", "e", "r", "i", "o", "r">>, <<"A", "n", "t", "e", "r", "i", "o", "r">>>>,
       <<<<"A", "c", "e", "p", "t", "a", "r">>, <<"A", "c", "e", "i", "t", "a", "r">>>>,
       <<<<"A", "c", "e", "p", "t", "a", "r">>, <<"A", "c", "e", "i", "t", "a", "r">>>>
    >>

RECURSIVE DictBuild(_, _)
DictBuild(d, items) ==
    IF items = <<>> THEN d
    ELSE LET k == Head(items)[1]
             v == Head(items)[2]
             at == {i \in DOMAIN d : d[i][1] = k}
         IN  DictBuild(IF at = {} THEN Append(d, <<k, v>>)
                       ELSE [i \in DOMAIN d |-> IF i \in at THEN <<k, v>> ELSE d[i]],
                       Tail(items))

\* (variant: the dictionary extended by an entry whose key is a value of another)
DICT_chained ==
    DictBuild(<<>>, DICT_LITERAL \o << <<<<"R", "e", "i">>, <<"R", "e", "x">>>> >>)

DICT == DictBuild(<<>>, DICT_LITERAL)

DictKeys == {DICT[i][1] : i \in DOMAIN DICT}
DictGet(k) == DICT[CHOOSE i \in DOMAIN DICT : DICT[i][1] = k][2]

-----------------------------------------------------------------------------
(* The patterns and should_skip.                                            *)

PROTECTED_PREFIX == <<"_", "_", "P", "R", "O", "T", "E", "C", "T", "E", "D", "_">>

\* PLACEHOLDER_PATTERN.search(text): \$[^\$]+\$ | __PROTECTED_\d+__
PLACEHOLDER_PATTERN(t) ==
    \/ \E i \in DOMAIN t : \E j \in (i + 2)..Len(t) :
          /\ t[i] = "$"
          /\ t[j] = "$"
          /\ \A k \in (i + 1)..(j - 1) : t[k] # "$"
    \/ \E i \in DOMAIN t : \E j \in (i + Len(PROTECTED_PREFIX))..(Len(t) - 2) :
          /\ SubSeq(t, i, i + Len(PROTECTED_PREFIX) - 1) = PROTECTED_PREFIX
          /\ \A k \in (i + Len(PROTECTED_PREFIX))..j : t[k] \in Digits
          /\ t[j + 1] = "_"
          /\ t[j + 2] = "_"

\* BRACKET_PATTERN.search(text): \[.*?\]  ("." matches anything but a newline)
BRACKET_PATTERN(t) ==
    \E i \in DOMAIN t : \E j \in (i + 1)..Len(t) :
        /\ t[i] = "["
        /\ t[j] = "]"
        /\ \A k \in (i + 1)..(j - 1) : t[k] # "\n"

\* (variant: the bracket test left out)
should_skip_no_bracket(t) ==
    \/ t = <<>>
    \/ Contains(t, <<"\\", "n">>)
    \/ PLACEHOLDER_PATTERN(t)

should_skip(t) ==
    \/ t = <<>>
    \/ Contains(t, <<"\\", "n">>)
    \/ BRACKET_PATTERN(t)
    \/ PLACEHOLDER_PATTERN(t)

-----------------------------------------------------------------------------
(* translate_text.                                                          *)

\* (variant: every leading mark removed, as text.lstrip would)
RECURSIVE remove_all_leading_inverted_exclamation(_)
remove_all_leading_inverted_exclamation(t) ==
    IF t # <<>> /\ t[1] = "iexcl"
    THEN remove_all_leading_inverted_exclamation(Tail(t)) ELSE t

remove_leading_inverted_exclamation(t) ==
    IF t # <<>> /\ t[1] = "iexcl" THEN Tail(t) ELSE t

\* repl(match): w is the matched run (never empty)
repl(w) ==
    IF w \in DictKeys THEN DictGet(w)
    ELSE LET lw == str_lower(w)
             hits == {i \in DOMAIN DICT : str_lower(DICT[i][1]) = lw}
         IN  IF hits = {} THEN w
             ELSE LET first == CHOOSE i \in hits : \A j \in hits : i <= j
                      v == DICT[first][2]
                  IN  IF char_isupper(w[1])
                      THEN <<char_upper(v[1])>> \o Tail(v)
                      ELSE v

\* the length of the maximal run of word characters t starts with
RunLen(t) ==
    LET stops == {i \in DOMAIN t : ~IsWordChar(t[i])}
    IN  IF stops = {} THEN Len(t)
        ELSE (CHOOSE i \in stops : \A j \in stops : i <= j) - 1

\* re.sub(r"[\w...]+", repl, text)
RECURSIVE re_sub(_)
re_sub(t) ==
    IF t = <<>> THEN <<>>
    ELSE LET n == RunLen(t)
         IN  IF n = 0 THEN <<Head(t)>> \o re_sub(Tail(t))
             ELSE repl(SubSeq(t, 1, n)) \o re_sub(SubSeq(t, n + 1, Len(t)))

translate_text(t) ==
    IF should_skip(t) THEN [text |-> t, status |-> "BLOQUEADO"]
    ELSE LET translated == re_sub(remove_leading_inverted_exclamation(t))
         IN  [text |-> translated,
              status |-> IF translated # t THEN "TRADUZIDO" ELSE "IGNORADO"]

-----------------------------------------------------------------------------
(* str.split, str.join, text-mode reading and str.splitlines.               *)

IndexOf(s, c) ==
    IF \E i \in DOMAIN s : s[i] = c
    THEN CHOOSE i \in DOMAIN s : s[i] = c /\ \A j \in 1..(i - 1) : s[j] # c
    ELSE 0

\* s.split(sep, maxsplit); maxsplit = -1 is no limit
RECURSIVE str_split(_, _, _)
str_split(s, sep, maxsplit) ==
    LET i == IndexOf(s, sep)
    IN  IF maxsplit = 0 \/ i = 0 THEN <<s>>
        ELSE <<SubSeq(s, 1, i - 1)>>
                 \o str_split(SubSeq(s, i + 1, Len(s)), sep,
                              IF maxsplit < 0 THEN maxsplit ELSE maxsplit - 1)

\* sep.join(parts), sep a string
RECURSIVE str_join(_, _)
str_join(sep, parts) ==
    IF parts = <<>> THEN <<>>
    ELSE IF Len(parts) = 1 THEN parts[1]
    ELSE parts[1] \o sep \o str_join(sep, Tail(parts))

\* f.read() of a file opened in text mode: "\r\n" and "\r" are read as "\n"
RECURSIVE read_text(_)
read_text(s) ==
    LET i == IndexOf(s, "\r")
    IN  IF i = 0 THEN s
        ELSE SubSeq(s, 1, i - 1) \o <<"\n">>
                 \o read_text(SubSeq(s, IF i < Len(s) /\ s[i + 1] = "\n" THEN i + 2 ELSE i + 1,
                                     Len(s)))

\* the line boundaries of s.splitlines() among the characters of the model
\* ("\r" is gone once the file is read; Python also splits at \v, \x1c-\x1e,
\* \x85, \u2028 and \u2029)
LineBreaks == {"\n", "\f"}

\* s.splitlines()
RECURSIVE str_splitlines(_)
str_splitlines(s) ==
    IF s = <<>> THEN <<>>
    ELSE LET breaks == {i \in DOMAIN s : s[i] \in LineBreaks}
         IN  IF breaks = {} THEN <<s>>
             ELSE LET i == CHOOSE b \in breaks : \A c \in breaks : b <= c
                  IN  <<SubSeq(s, 1, i - 1)>> \o str_splitlines(SubSeq(s, i + 1, Len(s)))

-----------------------------------------------------------------------------
(* detect_spanish_header and process_file.                                  *)

SPANISH == <<"S", "P", "A", "N", "I", "S", "H">>
FALLBACK_INDEX == 5

\* (variant: the column name compared without c.strip())
detect_spanish_header_no_strip(cols) ==
    LET hits == {i \in DOMAIN cols : str_upper(cols[i]) = SPANISH}
    IN  IF hits # {} THEN (CHOOSE i \in hits : \A j \in hits : i <= j) - 1
        ELSE IF Len(cols) > FALLBACK_INDEX THEN FALLBACK_INDEX
        ELSE None

\* the zero-based index of the target column, or None
detect_spanish_header(cols) ==
    LET hits == {i \in DOMAIN cols : str_upper(str_strip(cols[i])) = SPANISH}
    IN  IF hits # {} THEN (CHOOSE i \in hits : \A j \in hits : i <= j) - 1
        ELSE IF Len(cols) > FALLBACK_INDEX THEN FALLBACK_INDEX
        ELSE None

\* (variant: comment lines rewritten like data lines)
rewrite_line_no_comment(ln, spanish_idx) ==
    LET left_parts == str_split(ln, ";", spanish_idx)
    IN  IF Len(left_parts) < spanish_idx + 1
        THEN [line |-> ln, translated |-> FALSE]
        ELSE LET left == str_join(<<";">>, SubSeq(left_parts, 1, spanish_idx))
                 rest == left_parts[spanish_idx + 1]
                 cut  == IndexOf(rest, ";")
                 span == IF cut # 0 THEN SubSeq(rest, 1, cut - 1) ELSE rest
                 right == IF cut # 0 THEN SubSeq(rest, cut, Len(rest)) ELSE <<>>
                 res  == translate_text(span)
             IN  [line |-> IF left # <<>>
                           THEN left \o <<";">> \o res.text \o right
                           ELSE res.text \o right,
                  translated |-> res.status = "TRADUZIDO"]

\* one pass of the loop over lines[1:]: the line appended to out_lines, and
\* whether the pass counted a translated cell
rewrite_line(ln, spanish_idx) ==
    IF ln # <<>> /\ ln[1] = "#" THEN [line |-> ln, translated |-> FALSE]
    ELSE LET left_parts == str_split(ln, ";", spanish_idx)
         IN  IF Len(left_parts) < spanish_idx + 1
             THEN [line |-> ln, translated |-> FALSE]
             ELSE LET left == str_join(<<";">>, SubSeq(left_parts, 1, spanish_idx))
                      rest == left_parts[spanish_idx + 1]
                      cut  == IndexOf(rest, ";")
                      span == IF cut # 0 THEN SubSeq(rest, 1, cut - 1) ELSE rest
                      right == IF cut # 0 THEN SubSeq(rest, cut, Len(rest)) ELSE <<>>
                      res  == translate_text(span)
                  IN  [line |-> IF left # <<>>
                                THEN left \o <<";">> \o res.text \o right
                                ELSE res.text \o right,
                       translated |-> res.status = "TRADUZIDO"]

\* spanish_idx of the lines read (None also when there is no line at all)
header_index(ls) ==
    IF ls = <<>> THEN None
    ELSE detect_spanish_header(str_split(ls[1], ";", -1))

\* out_lines of process_file
out_lines(ls, spanish_idx) ==
    [i \in DOMAIN ls |-> IF i = 1 THEN ls[1] ELSE rewrite_line(ls[i], spanish_idx).line]

translated_count(ls, spanish_idx) ==
    Cardinality({i \in DOMAIN ls : i > 1 /\ rewrite_line(ls[i], spanish_idx).translated})

\* '\n'.join(out_lines) + '\n'
file_text(ols) == str_join(<<"\n">>, ols) \o <<"\n">>

-----------------------------------------------------------------------------
(* main: the directory, glob and sorted.                                    *)

large_threshold == 10 * 1024

CSV_SUFFIX == <<".", "c", "s", "v">>
LOG_FILE_name == <<"t", "r", "a", "n", "s", "l", "a", "t", "e", "d", "_", "f", "i", "l", "e", "s", "_", "l", "o", "g", ".", "t", "x", "t">>

\* code point order of the characters of file names
CodeOrder ==
    <<".", "0", "1", "2", "3", "4", "5", "6", "7", "8", "9">> \o
    SubSeq(UpperLetters, 1, 26) \o <<"_">> \o SubSeq(LowerLetters, 1, 26)
char_ord(c) == IndexIn(CodeOrder, c)

RECURSIVE str_less(_, _)
str_less(a, b) ==
    IF b = <<>> THEN FALSE
    ELSE IF a = <<>> THEN TRUE
    ELSE IF Head(a) # Head(b) THEN char_ord(Head(a)) < char_ord(Head(b))
    ELSE str_less(Tail(a), Tail(b))

\* CSV_DIR.glob('*.csv')
glob_csv(dir) ==
    {n \in dir : /\ Len(n) >= Len(CSV_SUFFIX)
                 /\ SubSeq(n, Len(n) - Len(CSV_SUFFIX) + 1, Len(n)) = CSV_SUFFIX}

\* (variant: the files in descending order, as an unsorted glob may give them)
RECURSIVE sorted_descending(_)
sorted_descending(S) ==
    IF S = {} THEN <<>>
    ELSE LET m == CHOOSE x \in S : \A y \in S \ {x} : str_less(y, x)
         IN  <<m>> \o sorted_descending(S \ {m})

RECURSIVE sorted(_)
sorted(S) ==
    IF S = {} THEN <<>>
    ELSE LET m == CHOOSE x \in S : \A y \in S \ {x} : str_less(x, y)
         IN  <<m>> \o sorted(S \ {m})

\* "if file.name == LOG_FILE.name: continue", else "if size <= large_threshold: continue"
skipped_by_name(f) == f = LOG_FILE_name
\* (variant: "<" for "<=")
skipped_by_size_strict(f) == stat_size[f] < large_threshold
skipped_by_size(f) == stat_size[f] <= large_threshold

Prefixes(s) == {SubSeq(s, 1, n) : n \in 0..(Len(s) - 1)}

StartMain ==
    /\ pc = "start"
    /\ results' = <<>>
    /\ todo' = sorted(glob_csv(DOMAIN disk))
    /\ pc' = "loop"
    /\ UNCHANGED <<disk, stat_size, logfile, lines, stdout, disk0, log0,
                   opened, handled, crashAt, text, pass1, pass2, tpc>>

\* the two "continue" of the loop
SkipFile ==
    /\ pc = "loop"
    /\ todo # <<>>
    /\ LET f == Head(todo)
       IN  /\ IF skipped_by_name(f) THEN UNCHANGED handled
              ELSE /\ skipped_by_size(f)
                   /\ handled' = Append(handled, f)
    /\ todo' = Tail(todo)
    /\ UNCHANGED <<disk, stat_size, logfile, lines, results, stdout, pc, disk0,
                   log0, opened, crashAt, text, pass1, pass2, tpc>>

\* file.stat() raises
StatFail ==
    /\ pc = "loop"
    /\ todo # <<>>
    /\ ~skipped_by_name(Head(todo))
    /\ pc' = "crashed"
    /\ crashAt' = Head(todo)
    /\ UNCHANGED <<disk, stat_size, logfile, todo, lines, results, stdout, disk0,
                   log0, opened, handled, text, pass1, pass2, tpc>>

\* process_file, lines 84-85: the file is read
ReadFile ==
    /\ pc = "loop"
    /\ todo # <<>>
    /\ LET f == Head(todo)
       IN  /\ ~skipped_by_name(f)
           /\ ~skipped_by_size(f)
           /\ lines' = str_splitlines(read_text(disk[f]))
           /\ handled' = Append(handled, f)
    /\ pc' = "file"
    /\ UNCHANGED <<disk, stat_size, logfile, todo, results, stdout, disk0, log0,
                   opened, crashAt, text, pass1, pass2, tpc>>

\* path.open('r') or f.read() raises
ReadFail ==
    /\ pc = "loop"
    /\ todo # <<>>
    /\ LET f == Head(todo)
       IN  /\ ~skipped_by_name(f)
           /\ ~skipped_by_size(f)
           /\ handled' = Append(handled, f)
           /\ crashAt' = f
    /\ pc' = "crashed"
    /\ UNCHANGED <<disk, stat_size, logfile, todo, lines, results, stdout, disk0,
                   log0, opened, text, pass1, pass2, tpc>>

\* (variant: a file without target column left out of results)
ReturnIgnored_unlogged ==
    /\ pc = "file"
    /\ header_index(lines) = None
    /\ todo' = Tail(todo)
    /\ lines' = <<>>
    /\ pc' = "loop"
    /\ UNCHANGED <<disk, stat_size, logfile, results, stdout, disk0, log0, opened,
                   handled, crashAt, text, pass1, pass2, tpc>>

\* process_file returns ('IGNORADO', 0): no line, or no target column
ReturnIgnored ==
    /\ pc = "file"
    /\ header_index(lines) = None
    /\ results' = Append(results, <<Head(todo), "SCRIPT", "IGNORADO">>)
    /\ todo' = Tail(todo)
    /\ lines' = <<>>
    /\ pc' = "loop"
    /\ UNCHANGED <<disk, stat_size, logfile, stdout, disk0, log0, opened,
                   handled, crashAt, text, pass1, pass2, tpc>>

\* process_file rewrites the file and returns ('TRADUZIDO', translated_count)
WriteFile ==
    /\ pc = "file"
    /\ header_index(lines) # None
    /\ LET f == Head(todo)
           idx == header_index(lines)
       IN  /\ disk' = [disk EXCEPT ![f] = file_text(out_lines(lines, idx))]
           /\ opened' = Append(opened, f)
           /\ results' = Append(results, <<f, "SCRIPT", "TRADUZIDO">>)
    /\ todo' = Tail(todo)
    /\ lines' = <<>>
    /\ pc' = "loop"
    /\ UNCHANGED <<stat_size, logfile, stdout, disk0, log0, handled, crashAt,
                   text, pass1, pass2, tpc>>

\* path.open('w') raises (the file is as it was), or f.write raises after the
\* file was truncated (any part of the new text may have reached the disk)
WriteFail ==
    /\ pc = "file"
    /\ header_index(lines) # None
    /\ LET f == Head(todo)
           new == file_text(out_lines(lines, header_index(lines)))
       IN  /\ \/ UNCHANGED <<disk, opened>>
              \/ /\ \E part \in Prefixes(new) : disk' = [disk EXCEPT ![f] = part]
                 /\ opened' = Append(opened, f)
           /\ crashAt' = f
    /\ pc' = "crashed"
    /\ UNCHANGED <<stat_size, logfile, todo, lines, results, stdout, disk0, log0,
                   handled, text, pass1, pass2, tpc>>

\* lines 152-156: the log is written and the summary printed
WriteLog ==
    /\ pc = "loop"
    /\ todo = <<>>
    /\ logfile' = [exists |-> TRUE, lines |-> results]
    /\ stdout' = Len(results)
    /\ pc' = "done"
    /\ UNCHANGED <<disk, stat_size, todo, lines, results, disk0, log0, opened,
                   handled, crashAt, text, pass1, pass2, tpc>>

\* LOG_FILE.open('w') raises (the log is as it was), or lf.write raises after
\* the log was truncated
LogFail ==
    /\ pc = "loop"
    /\ todo = <<>>
    /\ \/ UNCHANGED logfile
       \/ \E n \in 0..Len(results) :
              logfile' = [exists |-> TRUE, lines |-> SubSeq(results, 1, n)]
    /\ crashAt' = LOG_FILE_name
    /\ pc' = "crashed"
    /\ UNCHANGED <<disk, stat_size, todo, lines, results, stdout, disk0, log0,
                   opened, handled, text, pass1, pass2, tpc>>

Next ==
    \/ StartMain
    \/ SkipFile
    \/ StatFail
    \/ ReadFile
    \/ ReadFail
    \/ ReturnIgnored
    \/ WriteFile
    \/ WriteFail
    \/ WriteLog
    \/ LogFail

-----------------------------------------------------------------------------
(* The directories main is run in.                                          *)

MaxFiles == 2
MaxLines == 2
MaxCols == 6

\* The texts of the model are short: a text stands for the lines of a file
\* that matter, and st_size is what file.stat() reports for the whole file,
\* taken on either side of the threshold.
Sizes == {large_threshold, large_threshold + 1}

\* the names a.csv, b.csv, ... and one file that is no *.csv
CsvNames == {<<LowerLetters[i]>> \o CSV_SUFFIX : i \in 1..MaxFiles}
OtherName == <<"z", ".", "t", "x", "t">>
OtherText == <<"S", "P", "A", "N", "I", "S", "H", "\n", "R", "e", "y", "\n">>

\* a log left by an earlier run
OldLog == [exists |-> TRUE, lines |-> << <<<<"o", "l", "d", ".", "c", "s", "v">>, "SCRIPT", "TRADUZIDO">> >>]

\* lines joined into the text of a file
FileOf(ls, eol, trailing) == str_join(eol, ls) \o (IF trailing THEN eol ELSE <<>>)

SeqsUpTo(S, n) == UNION {[1..k -> S] : k \in 0..n}

InitMain(d, sz, lg) ==
    /\ disk = d
    /\ stat_size = sz
    /\ logfile = lg
    /\ todo = <<>>
    /\ lines = <<>>
    /\ results = <<>>
    /\ stdout = None
    /\ pc = "start"
    /\ disk0 = d
    /\ log0 = lg
    /\ opened = <<>>
    /\ handled = <<>>
    /\ crashAt = NoCrash
    /\ text = <<>>
    /\ pass1 = NoResult
    /\ pass2 = NoResult
    /\ tpc = "off"

\* Spec: up to MaxFiles *.csv files, each one of three texts
Catalog ==
    { <<"C", "O", "D", "E", ";", "S", "P", "A", "N", "I", "S", "H", "\n", "k", ";", "R", "e", "y", "\n">>,
      <<"A", ";", "B", "\n", "k", ";", "R", "e", "y", "\n">>,
      <<"S", "P", "A", "N", "I", "S", "H", "\n", "H", "o", "l", "a", "\n">> }

Init ==
    \E present \in SUBSET CsvNames :
    \E d \in [present -> Catalog] :
    \E sz \in [present -> Sizes] :
    \E lg \in {NoFile, OldLog} :
        InitMain([n \in present \cup {OtherName} |-> IF n \in present THEN d[n] ELSE OtherText],
                 [n \in present \cup {OtherName} |-> IF n \in present THEN sz[n]
                                                     ELSE large_threshold + 1],
                 lg)

Spec == Init /\ [][Next]_vars

\* SpecFile: one *.csv file, its header one of FileHeaders, followed by up to
\* MaxLines lines of FileLines
FileHeaders ==
    { <<"S", "P", "A", "N", "I", "S", "H", ";", "B">>, <<"C", "O", "D", "E", ";", "s", "p", "a", "n", "i", "s", "h", ";", "X">>, <<"A", ";", "B", ";", " ", "S", "p", "a", "n", "i", "s", "h", " ">>, <<"A", ";", "B">> }

FileLines ==
    { <<"#", "c", ";", "R", "e", "y", ";", "$", "x", "$">>,
      <<>>,
      <<"k">>,
      <<"k", ";", "R", "e", "y", ";", "z">>,
      <<";", "R", "e", "y", ";", "z">>,
      <<"k", ";", ";", "r", "e", "y", ";", ";">>,
      <<"R", "e", "y", ",", "iexcl", "H", "o", "l", "a", ";", ";", "iexcl", "R", "e", "y">>,
      <<"[", "i", "]", " ", "R", "e", "y", ";", "k", ";", "\\", "n">> }

OneFile(content, size) ==
    InitMain([n \in {<<"a", ".", "c", "s", "v">>, OtherName} |-> IF n = OtherName THEN OtherText ELSE content],
             [n \in {<<"a", ".", "c", "s", "v">>, OtherName} |-> IF n = OtherName THEN large_threshold + 1
                                                ELSE size],
             NoFile)

InitFile ==
    \E h \in FileHeaders :
    \E body \in SeqsUpTo(FileLines, MaxLines) :
    \E eol \in {<<"\n">>, <<"\r", "\n">>, <<"\f">>} :
    \E trailing \in BOOLEAN :
    \E size \in Sizes :
        /\ FileOf(<<h>> \o body, eol, trailing) # <<>>
        /\ OneFile(FileOf(<<h>> \o body, eol, trailing), size)

SpecFile == InitFile /\ [][Next]_vars

\* SpecHeader: one *.csv file, its header up to MaxCols columns of ColNames
ColNames == { <<"S", "P", "A", "N", "I", "S", "H">>, <<" ", "S", "p", "a", "n", "i", "s", "h", "\t">>, <<"E", "S">> }

\* a comment, a row of MaxCols + 1 cells "Rey", and a row of one cell
HeaderBody ==
    << <<"#", ";", "R", "e", "y">>, str_join(<<";">>, [i \in 1..(MaxCols + 1) |-> <<"R", "e", "y">>]), <<"k">> >>

InitHeader ==
    \E cols \in SeqsUpTo(ColNames, MaxCols) :
    \E size \in Sizes :
        /\ cols # <<>>
        /\ OneFile(FileOf(<<str_join(<<";">>, cols)>> \o HeaderBody, <<"\n">>, TRUE), size)

SpecHeader == InitHeader /\ [][Next]_vars

-----------------------------------------------------------------------------
(* translate_text applied to a cell, and again to what it returned.         *)

MaxPieces == 4

WordPieces ==
    { <<"iexcl">>, <<"iquest">>, <<" ">>, <<"R", "e", "y">>, <<"R", "E", "Y">>, <<"r", "e", "y">>, <<"H", "o", "l", "a">>,
      <<"b", "i", "e", "n", "v", "e", "n", "i", "d", "o">>, <<"R", "e", "i", "n", "o">> }

SkipPieces ==
    { <<"[">>, <<"]">>, <<"$">>, <<"\\">>, <<"n">>, <<"iexcl", "R", "e", "y">>,
      PROTECTED_PREFIX, <<"1">>, <<"_", "_">> }

RECURSIVE Concat(_)
Concat(ss) == IF ss = <<>> THEN <<>> ELSE Head(ss) \o Concat(Tail(ss))

Texts == {Concat(ps) : ps \in SeqsUpTo(WordPieces, MaxPieces) \cup SeqsUpTo(SkipPieces, MaxPieces)}

InitText ==
    /\ text \in Texts
    /\ pass1 = NoResult
    /\ pass2 = NoResult
    /\ tpc = "cell"
    /\ disk = <<>>
    /\ stat_size = <<>>
    /\ logfile = NoFile
    /\ todo = <<>>
    /\ lines = <<>>
    /\ results = <<>>
    /\ stdout = None
    /\ pc = "off"
    /\ disk0 = <<>>
    /\ log0 = NoFile
    /\ opened = <<>>
    /\ handled = <<>>
    /\ crashAt = NoCrash

TranslateCell ==
    /\ tpc = "cell"
    /\ pass1' = translate_text(text)
    /\ tpc' = "once"
    /\ UNCHANGED <<mainVars, text, pass2>>

TranslateAgain ==
    /\ tpc = "once"
    /\ pass2' = translate_text(pass1.text)
    /\ tpc' = "twice"
    /\ UNCHANGED <<mainVars, text, pass1>>

NextText == TranslateCell \/ TranslateAgain

SpecText == InitText /\ [][NextText]_vars

-----------------------------------------------------------------------------
(* What the properties below speak of.                                      *)

ACsv == <<"a", ".", "c", "s", "v">>
BCsv == <<"b", ".", "c", "s", "v">>
KiB10 == 10240

CsvFiles == glob_csv(DOMAIN disk0)
LinesOf(content) == str_splitlines(read_text(content))
StartsWith(s, c) == s # <<>> /\ s[1] = c
CountOf(s, c) == Cardinality({i \in DOMAIN s : s[i] = c})

\* the position of the k-th c in s (0 for k = 0)
NthPos(s, c, k) ==
    IF k = 0 THEN 0
    ELSE CHOOSE i \in DOMAIN s : s[i] = c /\ CountOf(SubSeq(s, 1, i), c) = k

\* process_file has rewritten f and returned
Rewritten(f) == (\E i \in DOMAIN opened : opened[i] = f) /\ crashAt # f
WasOpened(f) == \E i \in DOMAIN opened : opened[i] = f
WasHandled(f) == \E i \in DOMAIN handled : handled[i] = f

\* the target column of a file as it was before the run
TargetOf(f) == header_index(LinesOf(disk0[f]))
IsLarge(f) == stat_size[f] > KiB10
Eligible(f) == f \in CsvFiles /\ IsLarge(f) /\ TargetOf(f) # None
NewText(f) == file_text(out_lines(LinesOf(disk0[f]), TargetOf(f)))

\* b is a with at most the cell of column idx changed: the text up to and
\* including the idx-th ";" and the text from the next ";" on are those of a
LineFrame(a, b, idx) ==
    LET n == CountOf(a, ";")
    IN  IF n < idx THEN b = a
        ELSE LET s == NthPos(a, ";", idx)
                 e == IF n > idx THEN NthPos(a, ";", idx + 1) ELSE Len(a) + 1
             IN  /\ CountOf(b, ";") = n
                 /\ Len(b) >= s + (Len(a) - e + 1)
                 /\ SubSeq(b, 1, s) = SubSeq(a, 1, s)
                 /\ SubSeq(b, Len(b) - (Len(a) - e), Len(b)) = SubSeq(a, e, Len(a))

-----------------------------------------------------------------------------
\* C1: in a rewritten file, every data line (not the header, not starting
\* with "#") differs from the line read at most in the target cell: the cells
\* to its left and the whole suffix to its right, every ";" included, are the
\* same, so the line has as many ";" as before.
C1_OnlyTargetCellChanges ==
    \A f \in CsvFiles :
        Rewritten(f) =>
            LET inL == LinesOf(disk0[f])
                outL == LinesOf(disk[f])
            IN  /\ Len(outL) = Len(inL)
                /\ \A i \in 2..Len(inL) :
                       \/ StartsWith(inL[i], "#")
                       \/ LineFrame(inL[i], outL[i], TargetOf(f))

-----------------------------------------------------------------------------
\* the log lines and the printed total the run ends with
LargeFiles == {f \in CsvFiles : IsLarge(f)}
ProcessedFiles == {f \in CsvFiles : Eligible(f)}
LogLineSet == {logfile.lines[i] : i \in DOMAIN logfile.lines}

-----------------------------------------------------------------------------
\* single-run texts and the dictionary entry they match without regard to case
IsRun(t) == t # <<>> /\ \A i \in DOMAIN t : IsWordChar(t[i])
FoldedKeys(t) == {i \in DOMAIN DICT : str_lower(DICT[i][1]) = str_lower(t)}

\* C3: a word run that is no exact-case key but equals a key without regard
\* to case is replaced by the key's target word with the run's leading case:
\* first character uppercase when the run's is, lowercase when it is not;
\* the rest of the target word as it is.
C3_LeadingCaseReapplied ==
    (tpc # "cell" /\ IsRun(text) /\ text \notin DictKeys /\ FoldedKeys(text) # {}) =>
        \E i \in FoldedKeys(text) :
            LET v == DICT[i][2]
            IN  /\ Len(pass1.text) = Len(v)
                /\ Tail(pass1.text) = Tail(v)
                /\ pass1.text[1] = IF char_isupper(text[1]) THEN char_upper(v[1])
                                   ELSE char_lower(v[1])

-----------------------------------------------------------------------------
Marks == {"iexcl", "iquest"}

\* C4 as stated: an eligible text starting with an inverted exclamation or
\* question mark loses exactly that one mark (a second one is kept) and is
\* TRADUZIDO; other eligible texts lose no leading character.
C4_OneLeadingMarkRemoved ==
    (tpc # "cell" /\ ~should_skip(text)) =>
        IF text[1] \in Marks
        THEN /\ CountOf(pass1.text, text[1]) = CountOf(text, text[1]) - 1
             /\ pass1.status = "TRADUZIDO"
             /\ (Len(text) >= 2 /\ text[2] = text[1]) => StartsWith(pass1.text, text[1])
             /\ (Len(text) < 2 \/ text[2] # text[1]) => ~StartsWith(pass1.text, text[1])
        ELSE /\ \A m \in Marks : CountOf(pass1.text, m) = CountOf(text, m)
             /\ ~IsWordChar(text[1]) => StartsWith(pass1.text, text[1])

\* C4 amended: an eligible text starting with an inverted exclamation mark
\* loses exactly that one mark (a second one is kept) and is TRADUZIDO; every
\* other eligible text, one starting with an inverted question mark included,
\* loses no leading character; no inverted question mark is ever removed.
C4_OneLeadingExclamationRemoved ==
    (tpc # "cell" /\ ~should_skip(text)) =>
        /\ CountOf(pass1.text, "iquest") = CountOf(text, "iquest")
        /\ IF text[1] = "iexcl"
           THEN /\ CountOf(pass1.text, "iexcl") = CountOf(text, "iexcl") - 1
                /\ pass1.status = "TRADUZIDO"
                /\ (Len(text) >= 2 /\ text[2] = "iexcl") => StartsWith(pass1.text, "iexcl")
                /\ (Len(text) < 2 \/ text[2] # "iexcl") => ~StartsWith(pass1.text, "iexcl")
           ELSE /\ CountOf(pass1.text, "iexcl") = CountOf(text, "iexcl")
                /\ ~IsWordChar(text[1]) => StartsWith(pass1.text, text[1])
                /\ IsWordChar(text[1]) => (pass1.text # <<>> /\ IsWordChar(pass1.text[1]))

C4_Witness ==
    /\ tpc = "once"
    /\ text = <<"iexcl", "iexcl">> \o <<"H", "o", "l", "a">>
    /\ pass1.text = <<"iexcl">> \o <<"H", "o", "l", "a">>
    /\ pass1.status = "TRADUZIDO"

-----------------------------------------------------------------------------
\* the features that block a cell, read off the text
HasEscapedNewline(t) == \E i \in 1..(Len(t) - 1) : t[i] = "\\" /\ t[i + 1] = "n"
HasBracketed(t) == \E j \in DOMAIN t : t[j] = "]" /\ \E i \in 1..(j - 1) : t[i] = "["
HasDollarPlaceholder(t) ==
    \E i \in DOMAIN t :
        /\ t[i] = "$"
        /\ i + 1 <= Len(t)
        /\ t[i + 1] # "$"
        /\ \E j \in (i + 2)..Len(t) : t[j] = "$"
HasProtectedMarker(t) ==
    \E i \in DOMAIN t : \E n \in 1..Len(t) :
        /\ i + Len(PROTECTED_PREFIX) + n + 1 <= Len(t)
        /\ \A k \in 1..Len(PROTECTED_PREFIX) : t[i + k - 1] = PROTECTED_PREFIX[k]
        /\ \A k \in 1..n : t[i + Len(PROTECTED_PREFIX) + k - 1] \in Digits
        /\ t[i + Len(PROTECTED_PREFIX) + n] = "_"
        /\ t[i + Len(PROTECTED_PREFIX) + n + 1] = "_"
Blocking(t) ==
    \/ Len(t) = 0
    \/ HasEscapedNewline(t)
    \/ HasBracketed(t)
    \/ HasDollarPlaceholder(t)
    \/ HasProtectedMarker(t)

\* C5: a cell that is empty, or holds backslash+"n", a bracketed substring, a
\* $...$ placeholder or a __PROTECTED_<digits>__ marker, is returned as it is
\* with status BLOQUEADO, whatever else it holds; a cell with none of these
\* is never BLOQUEADO.
C5_BlockedCellsUnchanged ==
    tpc # "cell" =>
        IF Blocking(text)
        THEN pass1.text = text /\ pass1.status = "BLOQUEADO"
        ELSE pass1.status # "BLOQUEADO"

C5_Witness ==
    /\ tpc = "once"
    /\ text = <<"iexcl", "R", "e", "y", "\\", "n">>
    /\ pass1 = [text |-> text, status |-> "BLOQUEADO"]

-----------------------------------------------------------------------------
\* the header of the one file of SpecHeader, as columns
HeaderCols == str_split(LinesOf(disk0[ACsv])[1], ";", -1)
IsSpanishName(c) == str_upper(str_strip(c)) = SPANISH
NamedCols == {i \in DOMAIN HeaderCols : IsSpanishName(HeaderCols[i])}
FirstNamed == CHOOSE i \in NamedCols : \A j \in NamedCols : i <= j

\* the zero-based index C6 gives, None for "no target column"
ExpectedIndex ==
    IF NamedCols # {} THEN FirstNamed - 1
    ELSE IF Len(HeaderCols) > 5 THEN 5
    ELSE None

\* the row of cells "Rey" as process_file must write it for a target column
RowWith(idx) ==
    str_join(<<";">>, [i \in 1..(MaxCols + 1) |-> IF i = idx + 1 THEN <<"R", "e", "i">> ELSE <<"R", "e", "y">>])

\* C6: the header locator returns the zero-based index of the first column
\* whose trimmed, upper-cased name is SPANISH, however many columns there
\* are; failing that 5 when the header has more than 5 columns; failing that
\* None, and then process_file does not rewrite the file.
C6_HeaderLocator ==
    /\ pc = "file" => header_index(lines) = ExpectedIndex
    /\ (pc \in {"loop", "done"} /\ WasHandled(ACsv) /\ IsLarge(ACsv)) =>
           IF ExpectedIndex = None
           THEN /\ ~WasOpened(ACsv)
                /\ disk[ACsv] = disk0[ACsv]
                /\ results = << <<ACsv, "SCRIPT", "IGNORADO">> >>
           ELSE /\ WasOpened(ACsv)
                /\ LinesOf(disk[ACsv])[3] = RowWith(ExpectedIndex)

C6_Witness ==
    /\ pc = "done"
    /\ Len(HeaderCols) = 6
    /\ NamedCols = {}
    /\ LinesOf(disk[ACsv])[3] = RowWith(5)

-----------------------------------------------------------------------------
\* C7: a file is opened for writing only if its size is above 10240 bytes
\* and its header has a target column, and at the end of a complete run
\* every such file has been; a file of 10240 bytes or less, or without a
\* target column, is never opened for writing and is on disk as it was.
C7_RewrittenIffLargeWithTarget ==
    \A f \in DOMAIN disk0 :
        /\ WasOpened(f) => Eligible(f)
        /\ ~Eligible(f) => disk[f] = disk0[f]
        /\ (pc = "done" /\ Eligible(f)) => (WasOpened(f) /\ disk[f] = NewText(f))

C7_Witness ==
    /\ pc = "done"
    /\ CsvFiles = {ACsv, BCsv}
    /\ stat_size[ACsv] = 10 * 1024 /\ TargetOf(ACsv) # None /\ disk[ACsv] = disk0[ACsv]
    /\ stat_size[BCsv] = 10 * 1024 + 1 /\ WasOpened(BCsv) /\ disk[BCsv] # disk0[BCsv]

-----------------------------------------------------------------------------
\* C8 as stated: for every eligible text, translating the translation again
\* changes nothing.
C8_SecondPassChangesNothing ==
    (tpc = "twice" /\ ~should_skip(text)) => pass2.text = pass1.text

\* C8 amended: for every eligible text that does not begin with two inverted
\* exclamation marks, translating the translation again changes nothing; for
\* one that does, the second pass removes one more leading mark and changes
\* nothing else.
C8_SecondPassOnlyStripsMark ==
    (tpc = "twice" /\ ~should_skip(text)) =>
        IF Len(text) >= 2 /\ text[1] = "iexcl" /\ text[2] = "iexcl"
        THEN pass1.text # <<>> /\ pass2.text = Tail(pass1.text)
        ELSE pass2.text = pass1.text

C8_Witness ==
    /\ tpc = "twice"
    /\ text = <<"r", "e", "y", " ", "b", "i", "e", "n", "v", "e", "n", "i", "d", "o">>
    /\ pass1.text = <<"R", "e", "i", " ", "B", "e", "m", "-", "v", "i", "n", "d", "o">>
    /\ pass2.text = pass1.text

-----------------------------------------------------------------------------
\* C9: in a rewritten file the header and every later line starting with "#"
\* stand unchanged at the same line position; the file has as many lines as
\* were read, and each ends with a newline.
C9_HeaderAndCommentsVerbatim ==
    \A f \in CsvFiles :
        Rewritten(f) =>
            LET inL == LinesOf(disk0[f])
                outL == LinesOf(disk[f])
            IN  /\ Len(outL) = Len(inL)
                /\ outL[1] = inL[1]
                /\ \A i \in 2..Len(inL) : StartsWith(inL[i], "#") => outL[i] = inL[i]
                /\ disk[f][Len(disk[f])] = "\n"
                /\ CountOf(disk[f], "\n") = Len(inL)
                /\ CountOf(disk[f], "\r") = 0

C9_Witness ==
    /\ Rewritten(ACsv)
    /\ LinesOf(disk0[ACsv]) = << <<"C", "O", "D", "E", ";", "s", "p", "a", "n", "i", "s", "h", ";", "X">>, <<"#", "c", ";", "R", "e", "y", ";", "$", "x", "$">>, <<"k", ";", "R", "e", "y", ";", "z">> >>
    /\ disk[ACsv] = <<"C", "O", "D", "E", ";", "s", "p", "a", "n", "i", "s", "h", ";", "X", "\n", "#", "c", ";", "R", "e", "y", ";", "$", "x", "$", "\n", "k", ";", "R", "e", "i", ";", "z", "\n">>
    /\ disk0[ACsv][Len(disk0[ACsv])] # "\n"

-----------------------------------------------------------------------------
\* the files before and after f in file-name order
Before(f) == {g \in CsvFiles : str_less(g, f)}
After(f) == {g \in CsvFiles : str_less(f, g)}
AsDone(g) == disk[g] = IF Eligible(g) THEN NewText(g) ELSE disk0[g]
Untouched(g) == disk[g] = disk0[g] /\ ~WasOpened(g) /\ ~WasHandled(g)

C10_Order ==
    /\ \A i \in DOMAIN handled : \A j \in DOMAIN handled :
           i < j => str_less(handled[i], handled[j])
    /\ \A i \in DOMAIN handled :
           /\ \A g \in Before(handled[i]) : WasHandled(g)
           /\ i < Len(handled) => AsDone(handled[i])
           /\ (i = Len(handled) /\ pc \in {"loop", "done"}) => AsDone(handled[i])
    /\ \A g \in CsvFiles : ~WasHandled(g) => Untouched(g)

C10_LogAtEnd ==
    /\ pc \in {"start", "loop", "file"} => logfile = log0
    /\ pc = "done" =>
           /\ \A g \in CsvFiles : WasHandled(g) /\ AsDone(g)
           /\ logfile = [exists |-> TRUE, lines |-> results]

C10_Crash ==
    (pc = "crashed" /\ crashAt \in CsvFiles) =>
        /\ logfile = log0
        /\ stdout = None
        /\ \A g \in Before(crashAt) : AsDone(g)
        /\ \A g \in After(crashAt) : Untouched(g)

\* a step that changes the log ends the run, and it is taken when no file is
\* left; nothing follows the end of the run or an escaped exception
C10_Step ==
    /\ logfile' # logfile => (pc = "loop" /\ todo = <<>> /\ pc' \in {"done", "crashed"})
    /\ pc \notin {"done", "crashed"}

\* C10: main handles the files one after another in sorted file-name order,
\* each read and rewritten before the next is touched, and writes the log
\* once, after the last file.  When an I/O failure occurs while a file is
\* handled the run halts there: the files before it stay rewritten, the
\* files after it are untouched, and the log is as it was.
C10_SequentialRun ==
    /\ [](C10_Order /\ C10_LogAtEnd /\ C10_Crash)
    /\ [][C10_Step]_vars

C10_Witness ==
    /\ pc = "crashed"
    /\ CsvFiles = {ACsv, BCsv}
    /\ crashAt = BCsv
    /\ log0 = OldLog
    /\ WasOpened(ACsv)
    /\ disk[ACsv] = NewText(ACsv)
    /\ disk[ACsv] # disk0[ACsv]

====
